---------------------------- MODULE Spec2Model ----------------------------
(***************************************************************************)
(* Test-Sync-Pro: the delta / dedup / routing pipeline of run.py and the   *)
(* pure helpers it is built from (delta_analyzer.py, dedup_engine.py,      *)
(* folder_manager.py, ado_client.ensure_folders).                          *)
(*                                                                         *)
(* Text is a sequence of one-character strings.  A float is kept as the    *)
(* exact fraction <<numerator, denominator>> the code divides out, and is  *)
(* compared by cross-multiplication.                                       *)
(***************************************************************************)
EXTENDS Integers, Sequences, FiniteSets, TLC

\* ------------------------------------------------------------------ text

NL == "\n"
SP == " "

\* str.strip() / str.lower() on the characters the model uses
CR == "\r"
Whitespace == {SP, NL, CR}

LowerChar(c) ==
    CASE c = "A" -> "a" [] c = "B" -> "b" [] c = "Z" -> "z"
      [] c = "U" -> "u" [] c = "V" -> "v" [] OTHER -> c

Lower(s) == [i \in 1..Len(s) |-> LowerChar(s[i])]

RECURSIVE LStripSet(_, _)
LStripSet(s, chars) ==
    IF s # <<>> /\ Head(s) \in chars THEN LStripSet(Tail(s), chars) ELSE s

RECURSIVE RStripSet(_, _)
RStripSet(s, chars) ==
    IF s # <<>> /\ s[Len(s)] \in chars
    THEN RStripSet(SubSeq(s, 1, Len(s) - 1), chars)
    ELSE s

Strip(s) == RStripSet(LStripSet(s, Whitespace), Whitespace)

\* sep.join(parts)
RECURSIVE Join(_, _)
Join(parts, sep) ==
    IF parts = <<>> THEN <<>>
    ELSE IF Len(parts) = 1 THEN parts[1]
    ELSE parts[1] \o sep \o Join(Tail(parts), sep)

\* s.split("\n")
RECURSIVE Split(_, _)
Split(s, sep) ==
    IF \A i \in 1..Len(s) : s[i] # sep THEN <<s>>
    ELSE LET k == CHOOSE i \in 1..Len(s) :
                     s[i] = sep /\ \A j \in 1..(i - 1) : s[j] # sep
         IN  <<SubSeq(s, 1, k - 1)>> \o Split(SubSeq(s, k + 1, Len(s)), sep)

\* s.replace("\r\n", "\n")
RECURSIVE ReplaceCRLF(_)
ReplaceCRLF(s) ==
    IF s = <<>> THEN <<>>
    ELSE IF Len(s) >= 2 /\ s[1] = CR /\ s[2] = NL
    THEN <<NL>> \o ReplaceCRLF(SubSeq(s, 3, Len(s)))
    ELSE <<s[1]>> \o ReplaceCRLF(Tail(s))

\* needle in haystack
Contains(haystack, needle) ==
    \E i \in 0..(Len(haystack) - Len(needle)) :
        \A k \in 1..Len(needle) : haystack[i + k] = needle[k]

\* ---------------------------------------------------------------- floats

Frac(n, d) == <<n, d>>
FGeq(x, y) == x[1] * y[2] >= y[1] * x[2]
FGt(x, y) == x[1] * y[2] > y[1] * x[2]
FEq(x, y) == x[1] * y[2] = y[1] * x[2]
FZero == Frac(0, 1)
\* bool(x) of a float
FTruthy(x) == x[1] # 0

\* ------------------------------------------------- difflib.SequenceMatcher

Min(x, y) == IF x <= y THEN x ELSE y

\* length of the common run of a[i..] and b[j..] (0-based i, j) inside the windows
RECURSIVE RunLen(_, _, _, _, _, _)
RunLen(a, b, i, j, ahi, bhi) ==
    IF i < ahi /\ j < bhi /\ a[i + 1] = b[j + 1]
    THEN 1 + RunLen(a, b, i + 1, j + 1, ahi, bhi)
    ELSE 0

\* SequenceMatcher.find_longest_match(alo, ahi, blo, bhi): the longest block,
\* of those the one starting earliest in a, of those the earliest in b
find_longest_match(a, b, alo, ahi, blo, bhi) ==
    LET Pairs == (alo..(ahi - 1)) \X (blo..(bhi - 1))
        size == [p \in Pairs |-> RunLen(a, b, p[1], p[2], ahi, bhi)]
    IN  IF \A p \in Pairs : size[p] = 0
        THEN [a |-> alo, b |-> blo, size |-> 0]
        ELSE LET best == CHOOSE p \in Pairs :
                       \A q \in Pairs :
                          \/ size[q] < size[p]
                          \/ /\ size[q] = size[p]
                             /\ \/ q[1] > p[1]
                                \/ q[1] = p[1] /\ q[2] >= p[2]
             IN  [a |-> best[1], b |-> best[2], size |-> size[best]]

\* sum of the sizes of SequenceMatcher.get_matching_blocks()
RECURSIVE MatchedTotal(_, _, _, _, _, _)
MatchedTotal(a, b, alo, ahi, blo, bhi) ==
    LET m == find_longest_match(a, b, alo, ahi, blo, bhi)
    IN  IF m.size = 0 THEN 0
        ELSE m.size
             + (IF alo < m.a /\ blo < m.b
                THEN MatchedTotal(a, b, alo, m.a, blo, m.b) ELSE 0)
             + (IF m.a + m.size < ahi /\ m.b + m.size < bhi
                THEN MatchedTotal(a, b, m.a + m.size, ahi, m.b + m.size, bhi)
                ELSE 0)

\* the factor 2.0 left out: matches / length
Ratio_unweighted(a, b) ==
    IF Len(a) + Len(b) = 0 THEN Frac(1, 1)
    ELSE Frac(MatchedTotal(a, b, 0, Len(a), 0, Len(b)), Len(a) + Len(b))

\* divided by the length of the longer string instead of the sum of both
Ratio_overLonger(a, b) ==
    IF Len(a) + Len(b) = 0 THEN Frac(1, 1)
    ELSE Frac(2 * MatchedTotal(a, b, 0, Len(a), 0, Len(b)),
              IF Len(a) >= Len(b) THEN Len(a) ELSE Len(b))

\* SequenceMatcher.ratio(): 2.0 * matches / length, and 1.0 when length is 0
Ratio(a, b) ==
    IF Len(a) + Len(b) = 0 THEN Frac(1, 1)
    ELSE Frac(2 * MatchedTotal(a, b, 0, Len(a), 0, Len(b)), Len(a) + Len(b))

None == "None"

\* -------------------------------------------------------- config.Settings

VARIABLES
    DEDUP_THRESHOLD     \* Settings.DEDUP_THRESHOLD, read from the environment at import

\* ---------------------------------------------------------- dedup_engine

_tc_signature(title, given, when, then) ==
    Lower(Strip(title \o <<NL>> \o given \o <<NL>> \o when \o <<NL>> \o then))

_existing_signature(tc) ==
    LET steps_text ==
            Join([i \in 1..Len(tc.steps) |->
                     tc.steps[i].action \o <<SP>> \o tc.steps[i].expected_result],
                 <<NL>>)
    IN  Lower(Strip(tc.title \o <<NL>> \o steps_text))

_similarity(a, b) == Ratio(a, b)

DedupResult(is_duplicate, matched_id, score) ==
    [is_duplicate |-> is_duplicate, matched_id |-> matched_id, score |-> score]

\* DedupEngine.__init__: `threshold or Settings.DEDUP_THRESHOLD`
DedupEngineInit(existing, threshold) ==
    [threshold |->
        IF threshold # None /\ FTruthy(threshold) THEN threshold ELSE DEDUP_THRESHOLD,
     existing_sigs |->
        [i \in 1..Len(existing) |-> <<existing[i].id, _existing_signature(existing[i])>>]]

\* the for loop of check: the running (best_score, best_id) after the first k signatures
RECURSIVE BestAfter(_, _, _)
BestAfter(sigs, new_sig, k) ==
    IF k = 0 THEN [best_score |-> FZero, best_id |-> 0]
    ELSE LET prev == BestAfter(sigs, new_sig, k - 1)
             score == _similarity(new_sig, sigs[k][2])
         IN  IF FGt(score, prev.best_score)
             THEN [best_score |-> score, best_id |-> sigs[k][1]]
             ELSE prev

check(engine, tc) ==
    LET new_sig == _tc_signature(tc.title, tc.given, tc.when, tc.then)
        best == BestAfter(engine.existing_sigs, new_sig, Len(engine.existing_sigs))
    IN  IF FGeq(best.best_score, engine.threshold)
        THEN DedupResult(TRUE, best.best_id, best.best_score)
        ELSE DedupResult(FALSE, 0, best.best_score)

\* check remembers the signature it was asked about
EngineAfterCheck_remembers(engine, tc) ==
    [engine EXCEPT !.existing_sigs =
        Append(@, <<0, _tc_signature(tc.title, tc.given, tc.when, tc.then)>>)]

\* the engine after check(tc): check assigns no attribute of self
EngineAfterCheck(engine, tc) == engine

\* the list comprehension of check_batch after the first k cases: the engine as the
\* calls left it and the pairs collected
RECURSIVE BatchAfter(_, _, _)
BatchAfter(engine, cases, k) ==
    IF k = 0 THEN [engine |-> engine, out |-> <<>>]
    ELSE LET prev == BatchAfter(engine, cases, k - 1)
         IN  [engine |-> EngineAfterCheck(prev.engine, cases[k]),
              out |-> Append(prev.out, <<cases[k], check(prev.engine, cases[k])>>)]

check_batch(engine, cases) == BatchAfter(engine, cases, Len(cases)).out

\* -------------------------------------------------------- delta_analyzer

\* the characters of lstrip("-\u2022*0123456789.) "); "bullet" stands for U+2022
BulletChars ==
    {"-", "bullet", "*", "0", "1", "2", "3", "4", "5", "6", "7", "8", "9", ".", ")", SP}

_extract_criteria_lines(ac_text) ==
    LET raws == Split(ReplaceCRLF(ac_text), NL)
        clean(raw) == LStripSet(Strip(raw), BulletChars)
    IN  SelectSeq([i \in 1..Len(raws) |-> clean(raws[i])], LAMBDA c : c # <<>>)

RECURSIVE CoverageParts(_)
CoverageParts(existing) ==
    IF existing = <<>> THEN <<>>
    ELSE LET tc == Head(existing)
             RECURSIVE StepParts(_)
             StepParts(steps) ==
                 IF steps = <<>> THEN <<>>
                 ELSE <<Head(steps).action, Head(steps).expected_result>>
                      \o StepParts(Tail(steps))
         IN  <<tc.title>> \o StepParts(tc.steps) \o CoverageParts(Tail(existing))

_existing_coverage_text(existing) == Lower(Join(CoverageParts(existing), <<NL>>))

COVERED_THRESHOLD == Frac(7, 10)

\* the literal `in` test left out: only the ratio decides
_line_is_covered_ratioOnly(line, coverage_text) ==
    LET best == find_longest_match(Lower(line), coverage_text,
                                   0, Len(Lower(line)), 0, Len(coverage_text))
        ratio == IF coverage_text # <<>>
                 THEN Frac(best.size * 2, Len(line) + Len(coverage_text))
                 ELSE FZero
    IN  FGeq(ratio, COVERED_THRESHOLD)

_line_is_covered(line, coverage_text) ==
    IF Contains(coverage_text, Lower(line)) THEN TRUE
    ELSE LET best == find_longest_match(Lower(line), coverage_text,
                                        0, Len(Lower(line)), 0, Len(coverage_text))
             ratio == IF coverage_text # <<>>
                      THEN Frac(best.size * 2, Len(line) + Len(coverage_text))
                      ELSE FZero
         IN  FGeq(ratio, COVERED_THRESHOLD)

\* the `if not self._existing` return left out: the loop runs on an empty corpus
ComputeDeltaRun_noExistingGuard(story, existing) ==
    LET ac_lines == _extract_criteria_lines(story.acceptance_criteria)
    IN  IF ac_lines = <<>> THEN [delta |-> <<>>, matched |-> <<>>]
        ELSE LET coverage == _existing_coverage_text(existing)
                 uncovered == SelectSeq(ac_lines,
                                  LAMBDA line : ~_line_is_covered(line, coverage))
             IN  [delta |->
                     IF uncovered = <<>> THEN <<>>
                     ELSE Join([i \in 1..Len(uncovered) |-> <<"-", SP>> \o uncovered[i]],
                               <<NL>>),
                  matched |-> ac_lines]

\* one execution of compute_delta: the string it returns and the lines its loop
\* passed to _line_is_covered
ComputeDeltaRun(story, existing) ==
    LET ac_lines == _extract_criteria_lines(story.acceptance_criteria)
    IN  IF ac_lines = <<>> THEN [delta |-> <<>>, matched |-> <<>>]
        ELSE IF existing = <<>> THEN [delta |-> <<>>, matched |-> <<>>]
        ELSE LET coverage == _existing_coverage_text(existing)
                 uncovered == SelectSeq(ac_lines,
                                  LAMBDA line : ~_line_is_covered(line, coverage))
             IN  [delta |->
                     IF uncovered = <<>> THEN <<>>
                     ELSE Join([i \in 1..Len(uncovered) |-> <<"-", SP>> \o uncovered[i]],
                               <<NL>>),
                  matched |-> ac_lines]

compute_delta(story, existing) == ComputeDeltaRun(story, existing).delta

has_existing_tests(existing) == existing # <<>>

\* --------------------------------------------------------------- models

ExistingTestCase(id, title, steps) == [id |-> id, title |-> title, steps |-> steps]

TestStep(action, expected_result) ==
    [action |-> action, expected_result |-> expected_result]

GeneratedTestCase(title, given, when, then, category) ==
    [title |-> title, given |-> given, when |-> when, then |-> then,
     category |-> category]

\* SyncResult(story_id=story_id): the field defaults
SyncResult ==
    [created_ids |-> <<>>, updated_ids |-> <<>>, skipped_count |-> 0]

\* ------------------------------------------------- ado_client (folders)

REQUIRED_FOLDERS == <<"Complete Test Cases", "Regression", "Smoke", "Sanity">>

EmptyMap == [n \in {} |-> 0]

\* dict.get(key): <<value>>, or <<>> for the None of a missing key
Get(map, key) == IF key \in DOMAIN map THEN <<map[key]>> ELSE <<>>

\* truthiness of what dict.get returned: neither None nor 0
Truthy(got) == got # <<>> /\ got[1] # 0

Put(map, key, v) == [n \in DOMAIN map \cup {key} |-> IF n = key THEN v ELSE map[n]]

\* the state of ensure_folders after the first k names of REQUIRED_FOLDERS:
\* the remote child suites, the id the next created suite gets, and folder_map
RECURSIVE EnsureAfter(_, _)
EnsureAfter(remote, k) ==
    IF k = 0
    THEN [suites |-> remote.suites, next_suite |-> remote.next_suite,
          folder_map |-> EmptyMap]
    ELSE LET prev == EnsureAfter(remote, k - 1)
             folder == REQUIRED_FOLDERS[k]
         IN  IF folder \in DOMAIN remote.suites
             THEN [prev EXCEPT !.folder_map = Put(@, folder, remote.suites[folder])]
             ELSE [suites |-> Put(prev.suites, folder, prev.next_suite),
                   next_suite |-> prev.next_suite + 1,
                   folder_map |-> Put(prev.folder_map, folder, prev.next_suite)]

\* every folder is created, whether the plan has it or not
RECURSIVE EnsureAfter_alwaysCreates(_, _)
EnsureAfter_alwaysCreates(remote, k) ==
    IF k = 0
    THEN [suites |-> remote.suites, next_suite |-> remote.next_suite,
          folder_map |-> EmptyMap]
    ELSE LET prev == EnsureAfter_alwaysCreates(remote, k - 1)
             folder == REQUIRED_FOLDERS[k]
         IN  [suites |-> Put(prev.suites, folder, prev.next_suite),
              next_suite |-> prev.next_suite + 1,
              folder_map |-> Put(prev.folder_map, folder, prev.next_suite)]

ensure_folders_alwaysCreates(remote) ==
    EnsureAfter_alwaysCreates(remote, Len(REQUIRED_FOLDERS))

ensure_folders(remote) == EnsureAfter(remote, Len(REQUIRED_FOLDERS))

\* ------------------------------------------------------- folder_manager

CATEGORIES == {"Smoke", "Sanity", "Regression"}

\* the category is looked up as it comes, not normalised
assign_test_unnormalised(folder_map, test_case_id, tc) ==
    LET complete_id == Get(folder_map, "Complete Test Cases")
        cat_suite_id == Get(folder_map, tc.category)
    IN  (IF Truthy(complete_id) THEN complete_id ELSE <<>>)
        \o (IF Truthy(cat_suite_id) THEN cat_suite_id ELSE <<>>)

\* nothing is filed unless both folders are in the map
assign_test_allOrNothing(folder_map, test_case_id, tc) ==
    LET complete_id == Get(folder_map, "Complete Test Cases")
        category == IF tc.category \in CATEGORIES THEN tc.category ELSE "Regression"
        cat_suite_id == Get(folder_map, category)
    IN  IF Truthy(complete_id) /\ Truthy(cat_suite_id)
        THEN complete_id \o cat_suite_id
        ELSE <<>>

\* assign_test: the suites add_test_to_suite is called with, in call order
assign_test(folder_map, test_case_id, tc) ==
    LET complete_id == Get(folder_map, "Complete Test Cases")
        category == IF tc.category \in CATEGORIES THEN tc.category ELSE "Regression"
        cat_suite_id == Get(folder_map, category)
    IN  (IF Truthy(complete_id) THEN complete_id ELSE <<>>)
        \o (IF Truthy(cat_suite_id) THEN cat_suite_id ELSE <<>>)
\* ------------------------------------------------------------------ run

VARIABLES
    pc,            \* where run() stands: the call or step it makes next
    dry_run,       \* the dry_run argument
    story,         \* UserStory returned by get_user_story
    existing,      \* list[ExistingTestCase] returned by get_linked_test_cases
    delta,         \* str returned by compute_delta
    cases,         \* list[GeneratedTestCase] returned by generate
    dedup,         \* the DedupEngine
    to_create,     \* list[GeneratedTestCase]
    to_update,     \* list[tuple[int, GeneratedTestCase]]
    result,        \* the SyncResult being accumulated
    folder_map,    \* FolderManager._folder_map, which is result.folder_map
    id_tc_pairs,   \* list[tuple[int, GeneratedTestCase]]
    assigned,      \* how many pairs assign_many has passed to assign_test
    calls,         \* the collaborator calls made so far, in order, with their outcome
    remote,        \* Azure DevOps: the child suites of the plan and the ids it hands out next
    phases         \* the phases of run() completed so far, in order

\* DedupEngine used on its own
VARIABLES
    threshold_arg, \* the threshold argument of DedupEngine.__init__
    probe,         \* the last check(tc) made on the engine and what it returned
    batch,         \* what the last check_batch(cases) returned
    looked_up,     \* the criteria lines compute_delta passed to _line_is_covered
    request,       \* the (test_case_id, tc) of the last assign_test
    returned       \* the maps the successive ensure_folders calls returned

vars == <<DEDUP_THRESHOLD, pc, dry_run, story, existing, delta, cases, dedup, to_create,
          to_update, result, folder_map, id_tc_pairs, assigned, calls, remote, phases,
          threshold_arg, probe, batch, looked_up, request, returned>>

MaxExisting == 2
MaxCases == 2

Call(op, args, ok) == [op |-> op, args |-> args, ok |-> ok]

\* sequences over S of length at most n
SeqsUpTo(S, n) == UNION {[1..k -> S] : k \in 0..n}

\* the acceptance criteria the work item may hold
AcPool ==
    {<<>>,
     <<"-", SP, "a">>,
     <<"-", SP, "a", NL, "-", SP, "Z">>}

\* what a linked Test Case may hold: (title, steps)
ArtifactPool ==
    {<<<<"a">>, <<TestStep(<<"b">>, <<"c">>)>>>>,
     <<<<"b">>, <<>>>>}

\* the linked Test Cases get_linked_test_cases may return: work items 1..n
ExistingLists ==
    UNION {{[i \in 1..n |-> ExistingTestCase(i, c[i][1], c[i][2])] :
               c \in [1..n -> ArtifactPool]} : n \in 0..MaxExisting}

\* the test cases the generator may produce
CasePool ==
    {GeneratedTestCase(<<"a">>, <<"b", SP, "c">>, <<>>, <<>>, "Smoke"),
     GeneratedTestCase(<<"B">>, <<>>, <<>>, <<>>, "Bogus"),
     GeneratedTestCase(<<"z">>, <<>>, <<>>, <<>>, "Sanity")}

CaseLists == SeqsUpTo(CasePool, MaxCases)

\* the values DEDUP_THRESHOLD may be configured to
ThresholdPool == {Frac(0, 1), Frac(9, 10)}

\* the child suites the plan may already have
SuitePool ==
    {EmptyMap,
     [n \in {"Regression"} |-> 1],
     [n \in {"Complete Test Cases", "Regression", "Smoke", "Sanity"} |->
        CASE n = "Complete Test Cases" -> 1 [] n = "Regression" -> 2
          [] n = "Smoke" -> 3 [] OTHER -> 4]}

\* no check made yet
NoProbe == [tc |-> <<>>, result |-> <<>>]

\* an object that has not been used yet
Unused ==
    /\ batch = <<>>
    /\ looked_up = <<>>
    /\ request = None
    /\ returned = <<>>

Init ==
    /\ DEDUP_THRESHOLD \in ThresholdPool
    /\ pc = "get_user_story"
    /\ dry_run \in BOOLEAN
    /\ story = None
    /\ existing = <<>>
    /\ delta = <<>>
    /\ cases = <<>>
    /\ dedup = None
    /\ to_create = <<>>
    /\ to_update = <<>>
    /\ result = SyncResult
    /\ folder_map = EmptyMap
    /\ id_tc_pairs = <<>>
    /\ assigned = 0
    /\ calls = <<>>
    /\ \E s \in SuitePool :
          remote = [suites |-> s, next_suite |-> Cardinality(DOMAIN s) + 1,
                    next_work_item |-> MaxExisting + 1]
    /\ phases = <<>>
    /\ threshold_arg = None
    /\ probe = NoProbe
    /\ Unused

standalone == <<threshold_arg, probe, batch, looked_up, request, returned>>

\* an exception raised inside run() is not caught there: the run ends at the call
\* the exception is swallowed and run() stays at the call
Raise_swallowed(made) ==
    /\ pc' = pc
    /\ calls' = calls \o made

\* `made` are the calls of the failing step, the last of them the one that raised
Raise(made) ==
    /\ pc' = "raised"
    /\ calls' = calls \o made

\* Phase 1: story = ado.get_user_story(story_id)
GetUserStory ==
    /\ pc = "get_user_story"
    /\ \E ac \in AcPool : story' = [acceptance_criteria |-> ac]
    /\ calls' = Append(calls, Call("get_user_story", <<>>, TRUE))
    /\ pc' = "get_linked_test_cases"
    /\ UNCHANGED <<DEDUP_THRESHOLD, dry_run, existing, delta, cases, dedup, to_create,
                   to_update, result, folder_map, id_tc_pairs, assigned, remote, phases,
                   standalone>>

GetUserStoryRaises ==
    /\ pc = "get_user_story"
    /\ Raise(<<Call("get_user_story", <<>>, FALSE)>>)
    /\ UNCHANGED <<DEDUP_THRESHOLD, dry_run, story, existing, delta, cases, dedup,
                   to_create, to_update, result, folder_map, id_tc_pairs, assigned,
                   remote, phases, standalone>>

\* existing = ado.get_linked_test_cases(story_id)
GetLinkedTestCases ==
    /\ pc = "get_linked_test_cases"
    /\ existing' \in ExistingLists
    /\ calls' = Append(calls, Call("get_linked_test_cases", <<>>, TRUE))
    /\ phases' = Append(phases, "Fetched")
    /\ pc' = "compute_delta"
    /\ UNCHANGED <<DEDUP_THRESHOLD, dry_run, story, delta, cases, dedup, to_create,
                   to_update, result, folder_map, id_tc_pairs, assigned, remote,
                   standalone>>

GetLinkedTestCasesRaises ==
    /\ pc = "get_linked_test_cases"
    /\ Raise(<<Call("get_linked_test_cases", <<>>, FALSE)>>)
    /\ UNCHANGED <<DEDUP_THRESHOLD, dry_run, story, existing, delta, cases, dedup,
                   to_create, to_update, result, folder_map, id_tc_pairs, assigned,
                   remote, phases, standalone>>

\* the `not` left out
FullyCovered_negated(ex, d) == has_existing_tests(ex) /\ d # <<>>

\* the early return left out: run() always goes on to the generator
FullyCovered_never(ex, d) == FALSE

\* `if analyzer.has_existing_tests and not delta`
FullyCovered(ex, d) == has_existing_tests(ex) /\ d = <<>>

\* Phase 2: delta = analyzer.compute_delta(), and the early return
ComputeDelta ==
    /\ pc = "compute_delta"
    /\ delta' = compute_delta(story, existing)
    /\ IF FullyCovered(existing, delta')
       THEN /\ result' = [result EXCEPT !.skipped_count = Len(existing)]
            /\ phases' = phases \o <<"DeltaComputed", "EarlyExit">>
            /\ pc' = "done"
       ELSE /\ result' = result
            /\ phases' = Append(phases, "DeltaComputed")
            /\ pc' = "generate"
    /\ UNCHANGED <<DEDUP_THRESHOLD, dry_run, story, existing, cases, dedup, to_create,
                   to_update, folder_map, id_tc_pairs, assigned, calls, remote,
                   standalone>>

\* the dry-run return left out
StopsAfterGenerate_never(dry) == FALSE

\* `if dry_run: return result`
StopsAfterGenerate(dry) == dry

\* Phase 4 left out: on to the push
AfterGenerate_skipsDedup(dry) == IF StopsAfterGenerate(dry) THEN "done" ELSE "setup_folders"

\* where run() goes once generate has returned: out, or on to Phase 4
AfterGenerate(dry) == IF StopsAfterGenerate(dry) THEN "done" ELSE "dedup"

\* Phase 3: cases = generator.generate(story, delta_hint=delta), and the dry-run return
Generate ==
    /\ pc = "generate"
    /\ cases' \in CaseLists
    /\ calls' = Append(calls, Call("generate", <<delta>>, TRUE))
    /\ phases' = Append(phases, "Generated")
    /\ pc' = AfterGenerate(dry_run)
    /\ UNCHANGED <<DEDUP_THRESHOLD, dry_run, story, existing, delta, dedup, to_create,
                   to_update, result, folder_map, id_tc_pairs, assigned, remote,
                   standalone>>

GenerateRaises ==
    /\ pc = "generate"
    /\ Raise(<<Call("generate", <<delta>>, FALSE)>>)
    /\ UNCHANGED <<DEDUP_THRESHOLD, dry_run, story, existing, delta, cases, dedup,
                   to_create, to_update, result, folder_map, id_tc_pairs, assigned,
                   remote, phases, standalone>>

\* duplicates are dropped instead of being queued for update
RECURSIVE Partition_dropsDuplicates(_)
Partition_dropsDuplicates(paired) ==
    IF paired = <<>> THEN [to_create |-> <<>>, to_update |-> <<>>]
    ELSE LET n == Len(paired)
             prev == Partition_dropsDuplicates(SubSeq(paired, 1, n - 1))
         IN  IF paired[n][2].is_duplicate
             THEN prev
             ELSE [prev EXCEPT !.to_create = Append(@, paired[n][1])]

\* to_update is keyed by matched id: an artifact already queued is not queued again
RECURSIVE Partition_oncePerArtifact(_)
Partition_oncePerArtifact(paired) ==
    IF paired = <<>> THEN [to_create |-> <<>>, to_update |-> <<>>]
    ELSE LET n == Len(paired)
             prev == Partition_oncePerArtifact(SubSeq(paired, 1, n - 1))
             tc == paired[n][1]
             dup_result == paired[n][2]
         IN  IF dup_result.is_duplicate
             THEN IF \E k \in 1..Len(prev.to_update) :
                        prev.to_update[k][1] = dup_result.matched_id
                  THEN prev
                  ELSE [prev EXCEPT !.to_update = Append(@, <<dup_result.matched_id, tc>>)]
             ELSE [prev EXCEPT !.to_create = Append(@, tc)]

\* the loop over `paired`: duplicates go to to_update with the matched id, the rest to
\* to_create, each list in the order of `paired`
RECURSIVE Partition(_)
Partition(paired) ==
    IF paired = <<>> THEN [to_create |-> <<>>, to_update |-> <<>>]
    ELSE LET n == Len(paired)
             prev == Partition(SubSeq(paired, 1, n - 1))
             tc == paired[n][1]
             dup_result == paired[n][2]
         IN  IF dup_result.is_duplicate
             THEN [prev EXCEPT !.to_update = Append(@, <<dup_result.matched_id, tc>>)]
             ELSE [prev EXCEPT !.to_create = Append(@, tc)]

\* Phase 4: dedup = DedupEngine(existing); paired = dedup.check_batch(cases); partition
Dedup ==
    /\ pc = "dedup"
    /\ dedup' = DedupEngineInit(existing, None)
    /\ LET parts == Partition(check_batch(dedup', cases))
       IN  /\ to_create' = parts.to_create
           /\ to_update' = parts.to_update
    /\ phases' = Append(phases, "Deduped")
    /\ pc' = "setup_folders"
    /\ UNCHANGED <<DEDUP_THRESHOLD, dry_run, story, existing, delta, cases, result,
                   folder_map, id_tc_pairs, assigned, calls, remote, standalone>>

\* the remote after ensure_folders returned e
Provisioned(rem, e) == [rem EXCEPT !.suites = e.suites, !.next_suite = e.next_suite]

\* Phase 5a: result.folder_map = folder_mgr.setup_folders()
SetupFolders ==
    /\ pc = "setup_folders"
    /\ LET e == ensure_folders(remote)
       IN  /\ folder_map' = e.folder_map
           /\ remote' = Provisioned(remote, e)
    /\ calls' = Append(calls, Call("ensure_folders", <<>>, TRUE))
    /\ pc' = "push"
    /\ UNCHANGED <<DEDUP_THRESHOLD, dry_run, story, existing, delta, cases, dedup,
                   to_create, to_update, result, id_tc_pairs, assigned, phases,
                   standalone>>

\* ensure_folders fails at one of its requests: the suites it created before stay
SetupFoldersRaises ==
    /\ pc = "setup_folders"
    /\ \E k \in 0..(Len(REQUIRED_FOLDERS) - 1) :
          remote' = Provisioned(remote, EnsureAfter(remote, k))
    /\ Raise(<<Call("ensure_folders", <<>>, FALSE)>>)
    /\ UNCHANGED <<DEDUP_THRESHOLD, dry_run, story, existing, delta, cases, dedup,
                   to_create, to_update, result, folder_map, id_tc_pairs, assigned,
                   phases, standalone>>

\* id_tc_pairs.insert(0, (id, tc))
Recorded_first(pairs, id, tc) == <<<<id, tc>>>> \o pairs

\* id_tc_pairs.append((id, tc))
Recorded(pairs, id, tc) == Append(pairs, <<id, tc>>)

CreatePending == pc = "push" /\ Len(result.created_ids) < Len(to_create)

UpdatePending ==
    /\ pc = "push"
    /\ Len(result.created_ids) = Len(to_create)
    /\ Len(result.updated_ids) < Len(to_update)

\* Phase 5b, one iteration: new_id = ado.create_test_case(tc, story_id)
CreateTestCase ==
    /\ CreatePending
    /\ LET tc == to_create[Len(result.created_ids) + 1]
           new_id == remote.next_work_item
       IN  /\ calls' = Append(calls, Call("create_test_case", <<tc>>, TRUE))
           /\ remote' = [remote EXCEPT !.next_work_item = @ + 1]
           /\ result' = [result EXCEPT !.created_ids = Append(@, new_id)]
           /\ id_tc_pairs' = Recorded(id_tc_pairs, new_id, tc)
    /\ UNCHANGED <<DEDUP_THRESHOLD, pc, dry_run, story, existing, delta, cases, dedup,
                   to_create, to_update, folder_map, assigned, phases, standalone>>

CreateTestCaseRaises ==
    /\ CreatePending
    /\ Raise(<<Call("create_test_case", <<to_create[Len(result.created_ids) + 1]>>, FALSE)>>)
    /\ UNCHANGED <<DEDUP_THRESHOLD, dry_run, story, existing, delta, cases, dedup,
                   to_create, to_update, result, folder_map, id_tc_pairs, assigned,
                   remote, phases, standalone>>

\* Phase 5c, one iteration: ado.update_test_case(tc_id, tc)
UpdateTestCase ==
    /\ UpdatePending
    /\ LET tc_id == to_update[Len(result.updated_ids) + 1][1]
           tc == to_update[Len(result.updated_ids) + 1][2]
       IN  /\ calls' = Append(calls, Call("update_test_case", <<tc_id, tc>>, TRUE))
           /\ result' = [result EXCEPT !.updated_ids = Append(@, tc_id)]
           /\ id_tc_pairs' = Recorded(id_tc_pairs, tc_id, tc)
    /\ UNCHANGED <<DEDUP_THRESHOLD, pc, dry_run, story, existing, delta, cases, dedup,
                   to_create, to_update, folder_map, assigned, remote, phases,
                   standalone>>

UpdateTestCaseRaises ==
    /\ UpdatePending
    /\ Raise(<<Call("update_test_case", to_update[Len(result.updated_ids) + 1], FALSE)>>)
    /\ UNCHANGED <<DEDUP_THRESHOLD, dry_run, story, existing, delta, cases, dedup,
                   to_create, to_update, result, folder_map, id_tc_pairs, assigned,
                   remote, phases, standalone>>

\* the `if not self._folder_map` test left out: setup_folders() is called every time
WithFolders_always(fm, rem) ==
    LET e == ensure_folders(rem)
    IN  [folder_map |-> e.folder_map, remote |-> Provisioned(rem, e),
         calls |-> <<Call("ensure_folders", <<>>, TRUE)>>]

\* `if not self._folder_map: self.setup_folders()`: the map, the remote and the call
\* made, if any
WithFolders(fm, rem) ==
    IF DOMAIN fm = {}
    THEN LET e == ensure_folders(rem)
         IN  [folder_map |-> e.folder_map, remote |-> Provisioned(rem, e),
              calls |-> <<Call("ensure_folders", <<>>, TRUE)>>]
    ELSE [folder_map |-> fm, remote |-> rem, calls |-> <<>>]

\* Phase 5d: folder_mgr.assign_many(id_tc_pairs) is entered
AssignMany ==
    /\ pc = "push"
    /\ Len(result.created_ids) = Len(to_create)
    /\ Len(result.updated_ids) = Len(to_update)
    /\ LET w == WithFolders(folder_map, remote)
       IN  /\ folder_map' = w.folder_map
           /\ remote' = w.remote
           /\ calls' = calls \o w.calls
    /\ pc' = "assign"
    /\ UNCHANGED <<DEDUP_THRESHOLD, dry_run, story, existing, delta, cases, dedup,
                   to_create, to_update, result, id_tc_pairs, assigned, phases,
                   standalone>>

\* the add_test_to_suite calls of one assign_test, all successful
SuiteCalls(suites, test_case_id) ==
    [i \in 1..Len(suites) |-> Call("add_test_to_suite", <<suites[i], test_case_id>>, TRUE)]

\* one iteration of assign_many: self.assign_test(tc_id, tc)
AssignTest ==
    /\ pc = "assign"
    /\ assigned < Len(id_tc_pairs)
    /\ LET tc_id == id_tc_pairs[assigned + 1][1]
           tc == id_tc_pairs[assigned + 1][2]
           w == WithFolders(folder_map, remote)
       IN  /\ folder_map' = w.folder_map
           /\ remote' = w.remote
           /\ calls' = calls \o w.calls
                         \o SuiteCalls(assign_test(w.folder_map, tc_id, tc), tc_id)
    /\ assigned' = assigned + 1
    /\ UNCHANGED <<DEDUP_THRESHOLD, pc, dry_run, story, existing, delta, cases, dedup,
                   to_create, to_update, result, id_tc_pairs, phases, standalone>>

\* assign_test fails at its k-th add_test_to_suite
AssignTestRaises ==
    /\ pc = "assign"
    /\ assigned < Len(id_tc_pairs)
    /\ LET tc_id == id_tc_pairs[assigned + 1][1]
           tc == id_tc_pairs[assigned + 1][2]
           w == WithFolders(folder_map, remote)
           suites == assign_test(w.folder_map, tc_id, tc)
       IN  /\ folder_map' = w.folder_map
           /\ remote' = w.remote
           /\ \E k \in 1..Len(suites) :
                 Raise(w.calls
                       \o SuiteCalls(SubSeq(suites, 1, k - 1), tc_id)
                       \o <<Call("add_test_to_suite", <<suites[k], tc_id>>, FALSE)>>)
    /\ UNCHANGED <<DEDUP_THRESHOLD, dry_run, story, existing, delta, cases, dedup,
                   to_create, to_update, result, id_tc_pairs, assigned, phases,
                   standalone>>

\* assign_many is through: _show_results(result); return result
Return ==
    /\ pc = "assign"
    /\ assigned = Len(id_tc_pairs)
    /\ phases' = Append(phases, "Routed")
    /\ pc' = "done"
    /\ UNCHANGED <<DEDUP_THRESHOLD, dry_run, story, existing, delta, cases, dedup,
                   to_create, to_update, result, folder_map, id_tc_pairs, assigned,
                   calls, remote, standalone>>

Next ==
    \/ GetUserStory
    \/ GetUserStoryRaises
    \/ GetLinkedTestCases
    \/ GetLinkedTestCasesRaises
    \/ ComputeDelta
    \/ Generate
    \/ GenerateRaises
    \/ Dedup
    \/ SetupFolders
    \/ SetupFoldersRaises
    \/ CreateTestCase
    \/ CreateTestCaseRaises
    \/ UpdateTestCase
    \/ UpdateTestCaseRaises
    \/ AssignMany
    \/ AssignTest
    \/ AssignTestRaises
    \/ Return

Spec == Init /\ [][Next]_vars

\* ------------------------------------------- DeltaAnalyzer on its own

MaxLines == 2

\* criteria lines: found literally, found in another case, close to the corpus, absent
LinePool ==
    {<<"a">>, <<"A", "b">>, <<"A", "b", "b">>, <<"a", "b", "z">>, <<"z">>}

\* acceptance criteria of up to MaxLines bulleted lines
DeltaAcPool ==
    {Join([i \in 1..Len(ls) |-> <<"-", SP>> \o ls[i]], <<NL>>) :
        ls \in SeqsUpTo(LinePool, MaxLines)}

DeltaArtifactPool ==
    {<<<<"a", "b">>, <<>>>>,
     <<<<"B">>, <<TestStep(<<"a">>, <<>>)>>>>,
     <<<<>>, <<>>>>,
     <<<<"a", "b", "c", "d">>, <<>>>>}

DeltaExistingLists ==
    UNION {{[i \in 1..n |-> ExistingTestCase(i, c[i][1], c[i][2])] :
               c \in [1..n -> DeltaArtifactPool]} : n \in 0..MaxExisting}

\* the worked example: criteria "- User can log in\n- User can reset password"
LoginCriteria ==
    <<"-", SP, "U", "s", "e", "r", SP, "c", "a", "n", SP, "l", "o", "g", SP, "i",
      "n", NL, "-", SP, "U", "s", "e", "r", SP, "c", "a", "n", SP, "r", "e", "s",
      "e", "t", SP, "p", "a", "s", "s", "w", "o", "r", "d">>

\* and one linked Test Case "Verify user login" with the step
\* ("user logs in", "dashboard shown")
LoginArtifacts ==
    <<ExistingTestCase(1,
        <<"V", "e", "r", "i", "f", "y", SP, "u", "s", "e", "r", SP, "l", "o", "g",
          "i", "n">>,
        <<TestStep(<<"u", "s", "e", "r", SP, "l", "o", "g", "s", SP, "i", "n">>,
                   <<"d", "a", "s", "h", "b", "o", "a", "r", "d", SP, "s", "h", "o",
                     "w", "n">>)>>)>>

\* the variables of run() that an object used on its own leaves alone
NotRunning ==
    /\ dry_run = FALSE
    /\ cases = <<>>
    /\ to_create = <<>>
    /\ to_update = <<>>
    /\ result = SyncResult
    /\ folder_map = EmptyMap
    /\ id_tc_pairs = <<>>
    /\ assigned = 0
    /\ calls = <<>>
    /\ remote = [suites |-> EmptyMap, next_suite |-> 1, next_work_item |-> MaxExisting + 1]
    /\ phases = <<>>

\* analyzer = DeltaAnalyzer(story, existing)
InitDelta ==
    /\ DEDUP_THRESHOLD = Frac(9, 10)
    /\ pc = "analyzer"
    /\ \E ac \in DeltaAcPool \cup {LoginCriteria} : story = [acceptance_criteria |-> ac]
    /\ existing \in DeltaExistingLists \cup {LoginArtifacts}
    /\ delta = None
    /\ dedup = None
    /\ threshold_arg = None
    /\ probe = NoProbe
    /\ Unused
    /\ NotRunning

\* delta = analyzer.compute_delta()
Analyze ==
    /\ pc = "analyzer"
    /\ delta' = compute_delta(story, existing)
    /\ looked_up' = ComputeDeltaRun(story, existing).matched
    /\ pc' = "analyzed"
    /\ UNCHANGED <<DEDUP_THRESHOLD, dry_run, story, existing, cases, dedup, to_create,
                   to_update, result, folder_map, id_tc_pairs, assigned, calls, remote,
                   phases, threshold_arg, probe, batch, request, returned>>

NextDelta == Analyze

SpecDelta == InitDelta /\ [][NextDelta]_vars

\* --------------------------------------------- DedupEngine on its own

TitlePool == {<<>>, <<"a">>, <<"A", "b">>, <<"b", "a">>}

SnapshotArtifactPool ==
    {<<t, st>> : t \in TitlePool, st \in {<<>>, <<TestStep(<<"b">>, <<>>)>>}}

\* the ids of a snapshot of n artifacts, ascending or descending
IdOrders(n) == {[i \in 1..n |-> i], [i \in 1..n |-> n + 1 - i]}

SnapshotLists ==
    UNION {{[i \in 1..n |-> ExistingTestCase(ids[i], c[i][1], c[i][2])] :
               c \in [1..n -> SnapshotArtifactPool], ids \in IdOrders(n)} :
           n \in 0..MaxExisting}

ProbePool ==
    {GeneratedTestCase(t, g, <<>>, <<>>, "Regression") :
        t \in TitlePool, g \in {<<>>, <<"b">>}}

ThresholdArgPool == {None, Frac(0, 1), Frac(1, 2), Frac(1, 1)}

\* dedup = DedupEngine(existing, threshold)
InitDedup ==
    /\ DEDUP_THRESHOLD \in ThresholdPool
    /\ pc = "engine"
    /\ story = None
    /\ existing \in SnapshotLists
    /\ delta = <<>>
    /\ threshold_arg \in ThresholdArgPool
    /\ dedup = DedupEngineInit(existing, threshold_arg)
    /\ probe = NoProbe
    /\ Unused
    /\ NotRunning

\* dedup.check(tc)
Check ==
    /\ pc = "engine"
    /\ \E tc \in ProbePool :
          /\ probe' = [tc |-> tc, result |-> check(dedup, tc)]
          /\ dedup' = EngineAfterCheck(dedup, tc)
    /\ pc' = "checked"
    /\ UNCHANGED <<DEDUP_THRESHOLD, dry_run, story, existing, delta, cases,
                   to_create, to_update, result, folder_map, id_tc_pairs, assigned,
                   calls, remote, phases, threshold_arg, batch, looked_up, request,
                   returned>>

NextDedup == Check

SpecDedup == InitDedup /\ [][NextDedup]_vars

\* ------------------------------- check_batch on an engine, fresh or used

BatchArtifactPool == {<<<<"a">>, <<>>>>, <<<<"A", "b">>, <<>>>>}

BatchSnapshots ==
    UNION {{[i \in 1..n |-> ExistingTestCase(i, c[i][1], c[i][2])] :
               c \in [1..n -> BatchArtifactPool]} : n \in 0..MaxExisting}

BatchCasePool ==
    {GeneratedTestCase(<<"a">>, <<>>, <<>>, <<>>, "Regression"),
     GeneratedTestCase(<<"A", "b">>, <<>>, <<>>, <<>>, "Regression"),
     GeneratedTestCase(<<"b", "a">>, <<"b">>, <<>>, <<>>, "Regression")}

\* dedup = DedupEngine(existing, threshold)
InitBatch ==
    /\ DEDUP_THRESHOLD \in ThresholdPool
    /\ pc = "engine"
    /\ story = None
    /\ existing \in BatchSnapshots
    /\ delta = <<>>
    /\ threshold_arg \in {None, Frac(1, 2)}
    /\ dedup = DedupEngineInit(existing, threshold_arg)
    /\ probe = NoProbe
    /\ Unused
    /\ NotRunning

\* dedup.check_batch(cases), on the engine as constructed or after a check
CheckBatch ==
    /\ pc \in {"engine", "checked"}
    /\ \E cs \in SeqsUpTo(BatchCasePool, MaxCases) :
          /\ cases' = cs
          /\ batch' = check_batch(dedup, cs)
          /\ dedup' = BatchAfter(dedup, cs, Len(cs)).engine
    /\ pc' = "batched"
    /\ UNCHANGED <<DEDUP_THRESHOLD, dry_run, story, existing, delta, to_create,
                   to_update, result, folder_map, id_tc_pairs, assigned, calls, remote,
                   phases, threshold_arg, probe, looked_up, request, returned>>

NextBatch == Check \/ CheckBatch

SpecBatch == InitBatch /\ [][NextBatch]_vars

\* ------------- FolderManager on its own, over any folder collaborator

\* the maps the collaborator's ensure_folders may answer with: any of the four
\* names, each with the id of its suite
FolderMapPool ==
    {[n \in S |-> CHOOSE i \in 1..Len(REQUIRED_FOLDERS) : REQUIRED_FOLDERS[i] = n] :
        S \in SUBSET {REQUIRED_FOLDERS[i] : i \in 1..Len(REQUIRED_FOLDERS)}}

CategoryPool == {"Smoke", "Sanity", "Regression", "Bogus"}

\* folder_mgr = FolderManager(ado); remote.suites is what ado.ensure_folders() answers
InitFolder ==
    /\ DEDUP_THRESHOLD = Frac(9, 10)
    /\ pc = "manager"
    /\ dry_run = FALSE
    /\ story = None
    /\ existing = <<>>
    /\ delta = <<>>
    /\ cases = <<>>
    /\ dedup = None
    /\ to_create = <<>>
    /\ to_update = <<>>
    /\ result = SyncResult
    /\ folder_map = EmptyMap
    /\ id_tc_pairs = <<>>
    /\ assigned = 0
    /\ calls = <<>>
    /\ \E m \in FolderMapPool :
          remote = [suites |-> m, next_suite |-> Len(REQUIRED_FOLDERS) + 1,
                    next_work_item |-> MaxExisting + 1]
    /\ phases = <<>>
    /\ threshold_arg = None
    /\ probe = NoProbe
    /\ Unused

\* folder_mgr.setup_folders()
FolderSetup ==
    /\ pc = "manager"
    /\ folder_map' = remote.suites
    /\ calls' = Append(calls, Call("ensure_folders", <<>>, TRUE))
    /\ pc' = "ready"
    /\ UNCHANGED <<DEDUP_THRESHOLD, dry_run, story, existing, delta, cases, dedup,
                   to_create, to_update, result, id_tc_pairs, assigned, remote, phases,
                   standalone>>

\* folder_mgr.assign_test(test_case_id, tc)
FolderAssign ==
    /\ pc \in {"manager", "ready"}
    /\ \E test_case_id \in 1..MaxExisting, category \in CategoryPool :
          LET tc == GeneratedTestCase(<<"a">>, <<>>, <<>>, <<>>, category)
              setup == DOMAIN folder_map = {}
              fm == IF setup THEN remote.suites ELSE folder_map
          IN  /\ request' = <<test_case_id, tc>>
              /\ folder_map' = fm
              /\ calls' = calls
                    \o (IF setup THEN <<Call("ensure_folders", <<>>, TRUE)>> ELSE <<>>)
                    \o SuiteCalls(assign_test(fm, test_case_id, tc), test_case_id)
    /\ pc' = "assigned"
    /\ UNCHANGED <<DEDUP_THRESHOLD, dry_run, story, existing, delta, cases, dedup,
                   to_create, to_update, result, id_tc_pairs, assigned, remote, phases,
                   threshold_arg, probe, batch, looked_up, returned>>

NextFolder == FolderSetup \/ FolderAssign

SpecFolder == InitFolder /\ [][NextFolder]_vars

\* ------------------- ADOClient.ensure_folders against the suite store

MaxEnsure == 2

\* the names a child suite of the root may have: the required ones and another
StoreNames == {REQUIRED_FOLDERS[i] : i \in 1..Len(REQUIRED_FOLDERS)} \cup {"Archive"}

\* the position of a name among the five
StoreOrder(n) ==
    CASE n = "Complete Test Cases" -> 1 [] n = "Regression" -> 2 [] n = "Smoke" -> 3
      [] n = "Sanity" -> 4 [] OTHER -> 5

\* the child suites the plan may hold, their ids ascending or descending by name
StorePool ==
    {[n \in S |-> StoreOrder(n)] : S \in SUBSET StoreNames}
    \cup {[n \in S |-> 6 - StoreOrder(n)] : S \in SUBSET StoreNames}

\* ado = ADOClient(), the plan in any of these states
InitStore ==
    /\ DEDUP_THRESHOLD = Frac(9, 10)
    /\ pc = "client"
    /\ dry_run = FALSE
    /\ story = None
    /\ existing = <<>>
    /\ delta = <<>>
    /\ cases = <<>>
    /\ dedup = None
    /\ to_create = <<>>
    /\ to_update = <<>>
    /\ result = SyncResult
    /\ folder_map = EmptyMap
    /\ id_tc_pairs = <<>>
    /\ assigned = 0
    /\ calls = <<>>
    /\ \E m \in StorePool :
          remote = [suites |-> m, next_suite |-> 6, next_work_item |-> MaxExisting + 1]
    /\ phases = <<>>
    /\ threshold_arg = None
    /\ probe = NoProbe
    /\ Unused

\* ado.ensure_folders() returns: the map and the number of suites it created
EnsureFolders ==
    /\ pc \in {"client", "retry"}
    /\ Len(returned) < MaxEnsure
    /\ LET e == ensure_folders(remote)
       IN  /\ returned' = Append(returned,
                              [folder_map |-> e.folder_map,
                               created |-> e.next_suite - remote.next_suite])
           /\ remote' = Provisioned(remote, e)
    /\ calls' = Append(calls, Call("ensure_folders", <<>>, TRUE))
    /\ UNCHANGED <<DEDUP_THRESHOLD, pc, dry_run, story, existing, delta, cases, dedup,
                   to_create, to_update, result, folder_map, id_tc_pairs, assigned,
                   phases, threshold_arg, probe, batch, looked_up, request>>

\* the first ado.ensure_folders() fails at one of its requests, the suites it
\* created before stay
EnsureFoldersRaises ==
    /\ pc = "client"
    /\ returned = <<>>
    /\ \E k \in 0..(Len(REQUIRED_FOLDERS) - 1) :
          remote' = Provisioned(remote, EnsureAfter(remote, k))
    /\ calls' = Append(calls, Call("ensure_folders", <<>>, FALSE))
    /\ pc' = "retry"
    /\ UNCHANGED <<DEDUP_THRESHOLD, dry_run, story, existing, delta, cases, dedup,
                   to_create, to_update, result, folder_map, id_tc_pairs, assigned,
                   phases, standalone>>

NextStore == EnsureFolders \/ EnsureFoldersRaises

SpecStore == InitStore /\ [][NextStore]_vars

\* ============================================================ properties

Range(f) == {f[i] : i \in DOMAIN f}

CallsOf(ops) == SelectSeq(calls, LAMBDA c : c.op \in ops)

WriteOps == {"ensure_folders", "create_test_case", "update_test_case", "add_test_to_suite"}

Creates == CallsOf({"create_test_case"})
Updates == CallsOf({"update_test_case"})
Adds == CallsOf({"add_test_to_suite"})

\* C1: in a dry run no write collaborator (create, update, add to suite, folder
\* provisioning) is ever called, the run never gets past generation, and what it
\* returns has no created and no updated ids.
C1_DryRunWritesNothing ==
    dry_run =>
        /\ CallsOf(WriteOps) = <<>>
        /\ pc \notin {"dedup", "setup_folders", "push", "assign"}
        /\ "Generated" \in Range(phases) => pc = "done"
        /\ pc = "done" => result.created_ids = <<>> /\ result.updated_ids = <<>>

C1_Witness ==
    /\ dry_run
    /\ pc = "done"
    /\ "Generated" \in Range(phases)
    /\ cases # <<>>
    /\ existing # <<>>

\* C2: with existing artifacts and an empty delta the run ends in EarlyExit, dry
\* run or not: skipped_count is the number of existing artifacts, created_ids and
\* updated_ids are empty, and neither the generator nor a write collaborator was called.
C2_EarlyExit ==
    ("DeltaComputed" \in Range(phases) /\ existing # <<>> /\ delta = <<>>) =>
        /\ pc = "done"
        /\ phases = <<"Fetched", "DeltaComputed", "EarlyExit">>
        /\ result.skipped_count = Len(existing)
        /\ result.created_ids = <<>>
        /\ result.updated_ids = <<>>
        /\ CallsOf(WriteOps \cup {"generate"}) = <<>>

C2_Witness ==
    /\ ~dry_run
    /\ "EarlyExit" \in Range(phases)
    /\ Len(existing) = MaxExisting
    /\ _extract_criteria_lines(story.acceptance_criteria) # <<>>
    /\ result.skipped_count = MaxExisting

\* the elements of seq whose index keep holds for, in order
RECURSIVE Picked(_, _, _)
Picked(seq, keep, n) ==
    IF n = 0 THEN <<>>
    ELSE Picked(seq, keep, n - 1) \o (IF keep[n] THEN <<seq[n]>> ELSE <<>>)

\* C3: when dedup has run, to_create is the generated cases whose check reports no
\* duplicate and to_update the others, each paired with its matched id, both in
\* generation order and both decided against the artifacts fetched before the delta;
\* so a completed non-dry run has len(created_ids) + len(updated_ids) = len(cases).
C3_Partition ==
    /\ pc = "setup_folders" =>
          LET fetched == DedupEngineInit(existing, None)
              verdict == [i \in 1..Len(cases) |-> check(fetched, cases[i])]
              matched == [i \in 1..Len(cases) |-> <<verdict[i].matched_id, cases[i]>>]
              dup == [i \in 1..Len(cases) |-> verdict[i].is_duplicate]
              nodup == [i \in 1..Len(cases) |-> ~verdict[i].is_duplicate]
          IN  /\ to_create = Picked(cases, nodup, Len(cases))
              /\ to_update = Picked(matched, dup, Len(cases))
    /\ "Deduped" \in Range(phases) => Len(to_create) + Len(to_update) = Len(cases)
    /\ (pc = "done" /\ "Routed" \in Range(phases)) =>
          Len(result.created_ids) + Len(result.updated_ids) = Len(cases)

C3_Witness ==
    /\ pc = "done"
    /\ "Routed" \in Range(phases)
    /\ result.created_ids # <<>>
    /\ result.updated_ids # <<>>

PhaseOrder == <<"Fetched", "DeltaComputed", "Generated", "Deduped", "Routed">>

\* C4: the phases come in the order Fetched, DeltaComputed, then EarlyExit or
\* Generated, Deduped, Routed, none of them twice; the generator is called only after
\* both fetches and the delta, dedup only after generation, a write collaborator only
\* after dedup.
C4_PhaseOrder ==
    /\ \/ phases = SubSeq(PhaseOrder, 1, Len(phases))
       \/ phases = <<"Fetched", "DeltaComputed", "EarlyExit">>
    /\ \A op \in {"get_user_story", "get_linked_test_cases", "generate"} :
          Len(CallsOf({op})) <= 1
    /\ CallsOf({"generate"}) # <<>> =>
          /\ "DeltaComputed" \in Range(phases)
          /\ Len(calls) >= 3
          /\ calls[1] = Call("get_user_story", <<>>, TRUE)
          /\ calls[2] = Call("get_linked_test_cases", <<>>, TRUE)
          /\ calls[3].op = "generate"
    /\ "Deduped" \in Range(phases) => calls[Min(3, Len(calls))] = Call("generate", <<delta>>, TRUE)
    /\ CallsOf(WriteOps) # <<>> => "Deduped" \in Range(phases)

C4_Witness ==
    /\ pc = "done"
    /\ phases = PhaseOrder
    /\ CallsOf({"create_test_case"}) # <<>>

\* the pairs Phase 5 produces: one per create, then one per update
ExpectedPairs ==
    [i \in 1..Len(result.created_ids) |-> <<result.created_ids[i], to_create[i]>>]
    \o SubSeq(to_update, 1, Len(result.updated_ids))

\* C5: in the push phase the creates come first, in to_create order, then the
\* updates, in to_update order; folder assignment starts only when every create and
\* update has returned and files the pairs once each, created pairs first, then
\* updated pairs.
C5_PushOrder ==
    LET pushes == CallsOf({"create_test_case", "update_test_case", "add_test_to_suite"})
        nc == Len(Creates)
        nu == Len(Updates)
    IN  /\ pushes = Creates \o Updates \o Adds
        /\ \A i \in 1..nc : Creates[i].args = <<to_create[i]>>
        /\ \A i \in 1..nu : Updates[i].args = to_update[i]
        /\ Adds # <<>> =>
              /\ nc = Len(to_create) /\ nu = Len(to_update)
              /\ \A c \in Range(Creates) \cup Range(Updates) : c.ok
        /\ id_tc_pairs = ExpectedPairs
        /\ \A j \in 1..Len(Adds) : Adds[j].args[2] = ExpectedPairs[(j + 1) \div 2][1]
        /\ (pc = "done" /\ "Routed" \in Range(phases)) =>
              Len(Adds) = 2 * Len(ExpectedPairs)

C5_Witness ==
    /\ pc = "done"
    /\ Len(Creates) = 1
    /\ Len(Updates) = 1
    /\ Len(Adds) = 4

KnownOps == WriteOps \cup {"get_user_story", "get_linked_test_cases", "generate"}

\* C6: a collaborator call that fails ends the run at that call: it is the last call
\* made (no retry, no later call, no compensating call), the run has raised and
\* returns nothing, and what was created or updated before stays as it was recorded.
C6_FailureAborts ==
    /\ \A i \in 1..Len(calls) :
          /\ calls[i].op \in KnownOps
          /\ ~calls[i].ok => (i = Len(calls) /\ pc = "raised")
    /\ pc = "raised" => (calls # <<>> /\ ~calls[Len(calls)].ok)
    /\ Len(SelectSeq(Creates, LAMBDA c : c.ok)) = Len(result.created_ids)
    /\ Len(SelectSeq(Updates, LAMBDA c : c.ok)) = Len(result.updated_ids)
    /\ remote.next_work_item = MaxExisting + 1 + Len(result.created_ids)

C6_Witness ==
    /\ pc = "raised"
    /\ result.created_ids # <<>>
    /\ calls[Len(calls)].op = "update_test_case"

\* the category a case is filed under
FiledUnder(tc) == IF tc.category \in {"Regression", "Smoke", "Sanity"}
                  THEN tc.category ELSE "Regression"

\* C7: with all four folders in the map, assign_test files the artifact into
\* "Complete Test Cases" and then into exactly one category folder: the one its
\* category names, or Regression when the category is none of the three.
C7_Filing ==
    (DOMAIN folder_map = Range(REQUIRED_FOLDERS)) =>
        /\ \A j \in 1..Len(Adds) :
              LET pair == id_tc_pairs[(j + 1) \div 2]
                  folder == IF j % 2 = 1 THEN "Complete Test Cases"
                            ELSE FiledUnder(pair[2])
              IN  Adds[j].args = <<folder_map[folder], pair[1]>>
        /\ pc \in {"assign", "done"} => Len(Adds) = 2 * assigned

C7_Witness ==
    /\ pc = "done"
    /\ \E j \in 1..Len(Adds) :
          /\ j % 2 = 0
          /\ id_tc_pairs[j \div 2][2].category = "Bogus"
          /\ Adds[j].args[1] = folder_map["Regression"]
    /\ \E j \in 1..Len(Adds) : Adds[j].args[1] = folder_map["Smoke"]

\* the similarity of the probed case to the i-th artifact of the snapshot
ProbeScore(i) ==
    _similarity(_tc_signature(probe.tc.title, probe.tc.given, probe.tc.when, probe.tc.then),
                _existing_signature(existing[i]))

\* the first artifact of the snapshot no other one beats
FirstBest ==
    CHOOSE i \in 1..Len(existing) :
        /\ \A j \in 1..Len(existing) : FGeq(ProbeScore(i), ProbeScore(j))
        /\ \A j \in 1..(i - 1) : FGt(ProbeScore(i), ProbeScore(j))

\* C8: check returns the highest similarity to a snapshot signature and the id of the
\* first artifact attaining it: duplicate with that id and score when the score
\* reaches the threshold, otherwise no duplicate, id 0 and that score.
C8_CheckReportsFirstBest ==
    (pc = "checked" /\ existing # <<>>) =>
        /\ FEq(probe.result.score, ProbeScore(FirstBest))
        /\ IF FGeq(ProbeScore(FirstBest), dedup.threshold)
           THEN /\ probe.result.is_duplicate
                /\ probe.result.matched_id = existing[FirstBest].id
           ELSE /\ ~probe.result.is_duplicate
                /\ probe.result.matched_id = 0

\* the thresholds 0..1 a DedupEngine can be configured with
ConfiguredInRange ==
    /\ FGeq(DEDUP_THRESHOLD, Frac(0, 1)) /\ FGeq(Frac(1, 1), DEDUP_THRESHOLD)
    /\ threshold_arg # None =>
          FGeq(threshold_arg, Frac(0, 1)) /\ FGeq(Frac(1, 1), threshold_arg)

\* C9: against an empty snapshot check reports no duplicate and score 0.0, whatever
\* threshold in 0..1 the engine was given or took from DEDUP_THRESHOLD.
C9_EmptySnapshotNeverDuplicate ==
    (pc = "checked" /\ existing = <<>> /\ ConfiguredInRange) =>
        /\ ~probe.result.is_duplicate
        /\ FEq(probe.result.score, FZero)

\* the length of the longest run of characters u and v share
LongestShared(u, v) ==
    CHOOSE k \in 0..Min(Len(u), Len(v)) :
        LET shared(n) == \E i \in 1..(Len(u) - n + 1), j \in 1..(Len(v) - n + 1) :
                            SubSeq(u, i, i + n - 1) = SubSeq(v, j, j + n - 1)
        IN  /\ k = 0 \/ shared(k)
            /\ \A n \in (k + 1)..Min(Len(u), Len(v)) : ~shared(n)

InCorpus(line, corpus) ==
    \E i \in 1..(Len(corpus) - Len(line) + 1) :
        SubSeq(corpus, i, i + Len(line) - 1) = Lower(line)

NearCorpus(line, corpus) ==
    10 * 2 * LongestShared(Lower(line), corpus) >= 7 * (Len(line) + Len(corpus))

\* a line is covered when its lowercase form is in the corpus or 2L/(len(line) +
\* len(corpus)) >= 0.70
CoveredLine(line, corpus) == InCorpus(line, corpus) \/ NearCorpus(line, corpus)

C11_NoArtifactsEmptyDelta ==
    (pc = "analyzed" /\ existing = <<>>) => (delta = <<>> /\ looked_up = <<>>)

C11_Witness ==
    /\ pc = "analyzed"
    /\ existing = <<>>
    /\ Len(_extract_criteria_lines(story.acceptance_criteria)) = 2
    /\ delta = <<>>

\* C12: for the criteria "- User can log in\n- User can reset password" and the one
\* artifact "Verify user login" with the step ("user logs in", "dashboard shown"),
\* compute_delta returns exactly "- User can reset password": the login line counts
\* as covered, the reset-password line as uncovered.
C12_LoginLineCovered ==
    (pc = "analyzed" /\ story.acceptance_criteria = LoginCriteria
        /\ existing = LoginArtifacts) =>
        delta = Split(LoginCriteria, NL)[2]

\* the signature of the probed case
ProbeSignature ==
    _tc_signature(probe.tc.title, probe.tc.given, probe.tc.when, probe.tc.then)

\* C13: the similarity of the empty string to any string, the empty one included,
\* is 0.0.
C13_EmptyScoresZero ==
    (pc = "checked" /\ ProbeSignature = <<>>) =>
        \A i \in 1..Len(existing) : FEq(ProbeScore(i), FZero)

\* C14: a non-empty signature has similarity 1.0 to itself, so a case whose
\* signature equals that of an artifact of the snapshot is reported duplicate with
\* score 1.0 by an engine whose threshold is 0.90.
C14_IdenticalIsDuplicate ==
    pc = "checked" =>
        \A i \in 1..Len(existing) :
            (ProbeSignature # <<>> /\ _existing_signature(existing[i]) = ProbeSignature) =>
                /\ FEq(ProbeScore(i), Frac(1, 1))
                /\ FEq(dedup.threshold, Frac(9, 10)) =>
                      /\ probe.result.is_duplicate
                      /\ FEq(probe.result.score, Frac(1, 1))

C14_Witness ==
    /\ pc = "checked"
    /\ FEq(dedup.threshold, Frac(9, 10))
    /\ Len(ProbeSignature) = 3
    /\ Len(existing) = 2
    /\ _existing_signature(existing[1]) # ProbeSignature
    /\ _existing_signature(existing[2]) = ProbeSignature
    /\ probe.result.is_duplicate
    /\ probe.result.matched_id = existing[2].id

\* C15: every similarity check computes lies in 0.0..1.0, and so does the score of
\* the DedupResult it returns.
C15_ScoreInUnitInterval ==
    pc = "checked" =>
        /\ \A i \in 1..Len(existing) :
              FGeq(ProbeScore(i), FZero) /\ FGeq(Frac(1, 1), ProbeScore(i))
        /\ FGeq(probe.result.score, FZero)
        /\ FGeq(Frac(1, 1), probe.result.score)

C15_Witness ==
    /\ pc = "checked"
    /\ Len(existing) = 2
    /\ FEq(ProbeScore(1), FZero)
    /\ FGt(ProbeScore(2), FZero) /\ FGt(Frac(1, 1), ProbeScore(2))
    /\ FEq(probe.result.score, ProbeScore(2))

\* C16: check_batch returns one (case, outcome) pair per case, in the order of the
\* cases, and each outcome is what check returns for that case on the engine as
\* constructed, whatever the other cases, their order and the checks made before;
\* check and check_batch leave the threshold and the snapshot of the engine as
\* they were.
C16_BatchIsPointwiseCheck ==
    LET fresh == DedupEngineInit(existing, threshold_arg)
    IN  /\ pc \in {"checked", "batched"} => dedup = fresh
        /\ pc = "batched" =>
              /\ Len(batch) = Len(cases)
              /\ \A i \in 1..Len(cases) :
                    batch[i] = <<cases[i], check(fresh, cases[i])>>

C16_Witness ==
    /\ pc = "batched"
    /\ probe # NoProbe
    /\ Len(batch) = 2
    /\ probe.tc.title = cases[2].title /\ probe.tc.given = cases[2].given
    /\ batch[1][1] # batch[2][1]
    /\ batch[1][2].is_duplicate
    /\ ~batch[2][2].is_duplicate

\* C17: assign_test files the artifact into each of "Complete Test Cases" and the
\* folder of its normalized category that the folder map holds, in that order, and
\* passes over the one the map lacks; it ends without raising.
C17_MissingFolderSkipped ==
    pc = "assigned" =>
        LET applicable == <<"Complete Test Cases", FiledUnder(request[2])>>
            present == SelectSeq(applicable, LAMBDA n : n \in DOMAIN folder_map)
        IN  /\ Len(Adds) = Len(present)
            /\ \A j \in 1..Len(present) :
                  Adds[j] = Call("add_test_to_suite",
                                 <<folder_map[present[j]], request[1]>>, TRUE)

C17_Witness ==
    /\ pc = "assigned"
    /\ "Complete Test Cases" \notin DOMAIN folder_map
    /\ request[2].category = "Bogus"
    /\ Len(Adds) = 1
    /\ Adds[1].args = <<folder_map["Regression"], request[1]>>

\* C18: whatever child suites the plan holds, successive ensure_folders calls
\* return the same map, its keys are exactly the four required names, and no call
\* after the first creates a suite.
C18_EnsureFoldersIdempotent ==
    \A k \in 1..Len(returned) :
        /\ DOMAIN returned[k].folder_map = Range(REQUIRED_FOLDERS)
        /\ k > 1 =>
              /\ returned[k].folder_map = returned[1].folder_map
              /\ returned[k].created = 0

C18_Witness ==
    /\ Len(returned) = 2
    /\ returned[1].created = 2
    /\ returned[2].created = 0
    /\ returned[2].folder_map = returned[1].folder_map
    /\ "Archive" \in DOMAIN remote.suites
    /\ Cardinality(DOMAIN remote.suites) = 5

\* the identifiers of the artifacts the fetch of linked artifacts returned
FetchedIds == {existing[i].id : i \in 1..Len(existing)}

\* C19: a duplicate verdict names an artifact of the snapshot, so every identifier
\* queued for update, passed to update_test_case or entered in updated_ids is the
\* identifier of an artifact fetched in this run.
C19_UpdatesTargetFetched ==
    /\ \A i \in 1..Len(to_update) : to_update[i][1] \in FetchedIds
    /\ \A j \in 1..Len(Updates) : Updates[j].args[1] \in FetchedIds
    /\ \A j \in 1..Len(result.updated_ids) : result.updated_ids[j] \in FetchedIds

\* the generated cases check flags duplicate against the fetched snapshot, in
\* generation order, each with the artifact it matched
Flagged ==
    LET fetched == DedupEngineInit(existing, None)
        verdict == [i \in 1..Len(cases) |-> check(fetched, cases[i])]
        matches == [i \in 1..Len(cases) |-> <<verdict[i].matched_id, cases[i]>>]
        dup == [i \in 1..Len(cases) |-> verdict[i].is_duplicate]
    IN  Picked(matches, dup, Len(cases))

\* C20: a completed non-dry run calls update_test_case once for each generated case
\* flagged duplicate, in generation order, also when several cases match the same
\* artifact: its identifier is then in updated_ids once per case, and each of these
\* cases is filed into the folders once.
C20_UpdateOncePerDuplicate ==
    (pc = "done" /\ "Routed" \in Range(phases)) =>
        LET created == Len(result.created_ids)
            flagged == Flagged
        IN  /\ Len(Updates) = Len(flagged)
            /\ Len(result.updated_ids) = Len(flagged)
            /\ Len(Adds) = 2 * (created + Len(flagged))
            /\ \A j \in 1..Len(flagged) :
                  /\ Updates[j].args = flagged[j]
                  /\ result.updated_ids[j] = flagged[j][1]
                  /\ Adds[2 * (created + j) - 1].args =
                        <<folder_map["Complete Test Cases"], flagged[j][1]>>
                  /\ Adds[2 * (created + j)].args =
                        <<folder_map[FiledUnder(flagged[j][2])], flagged[j][1]>>

C20_Witness ==
    /\ pc = "done"
    /\ "Routed" \in Range(phases)
    /\ Len(existing) = 2
    /\ Len(cases) = 2
    /\ result.updated_ids = <<existing[1].id, existing[1].id>>
    /\ Len(Updates) = 2
    /\ Len(Adds) = 4

\* the delta hints the generator was called with
Hints == [j \in 1..Len(CallsOf({"generate"})) |-> CallsOf({"generate"})[j].args[1]]

\* C21: the generator is called with an empty delta hint exactly when the fetch
\* returned no artifacts; with artifacts the hint is the non-empty bullet list of the
\* uncovered criteria lines, without artifacts it is empty even when the requirement
\* has no criteria lines.
C21_HintEmptyIffNoArtifacts ==
    \A j \in 1..Len(Hints) :
        /\ Hints[j] = <<>> <=> existing = <<>>
        /\ Hints[j] # <<>> =>
              LET corpus == _existing_coverage_text(existing)
                  open == SelectSeq(_extract_criteria_lines(story.acceptance_criteria),
                                    LAMBDA line : ~CoveredLine(line, corpus))
              IN  /\ open # <<>>
                  /\ Hints[j] =
                        Join([i \in 1..Len(open) |-> <<"-", SP>> \o open[i]], <<NL>>)

C21_Witness ==
    /\ Len(Hints) = 1
    /\ existing # <<>>
    /\ Len(_extract_criteria_lines(story.acceptance_criteria)) = 2
    /\ Hints[1] # <<>>
    /\ Len(Split(Hints[1], NL)) = 1
    /\ "Generated" \in Range(phases)

\* the positions in calls of the calls of the given operations
Positions(ops) == {k \in 1..Len(calls) : calls[k].op \in ops}

\* C22: a non-dry run makes at most one ensure_folders call, and from the push
\* phase on exactly one, successful and before every create and update call;
\* assign_many and assign_test find the map filled and do not provision again; when
\* ensure_folders fails nothing has been created or updated.
C22_ProvisionedOnceBeforePush ==
    /\ Len(CallsOf({"ensure_folders"})) <= 1
    /\ \A k \in Positions({"create_test_case", "update_test_case"}) :
          \E e \in Positions({"ensure_folders"}) : e < k /\ calls[e].ok
    /\ (pc \in {"push", "assign"} \/ "Routed" \in Range(phases)) =>
          /\ CallsOf({"ensure_folders"}) = <<Call("ensure_folders", <<>>, TRUE)>>
          /\ DOMAIN folder_map = Range(REQUIRED_FOLDERS)
    /\ (\E e \in Positions({"ensure_folders"}) : ~calls[e].ok) =>
          /\ pc = "raised"
          /\ Creates = <<>> /\ Updates = <<>>
          /\ result.created_ids = <<>> /\ result.updated_ids = <<>>

C22_Witness ==
    /\ pc = "done"
    /\ "Routed" \in Range(phases)
    /\ Len(Creates) = 1
    /\ Len(Updates) = 1
    /\ Len(Adds) = 4
    /\ Len(CallsOf({"ensure_folders"})) = 1
    /\ \A k \in Positions({"create_test_case", "update_test_case", "add_test_to_suite"}) :
          \A e \in Positions({"ensure_folders"}) : e < k

=============================================================================
